---- MODULE Spec2Model ----
\* Model of torch/distributed/_composable/fsdp/_fsdp_common.py:
\* the DataParallelMeshInfo class family and its __post_init__ chain,
\* _is_composable_with_fsdp, _get_dim0_padded_size and _chunk_with_empty.
EXTENDS Integers, Sequences, FiniteSets, TLC

VARIABLES
    mesh,            \* DeviceMesh: size of each mesh dimension
    coord,           \* this process's coordinate along each mesh dimension
    info,            \* the mesh-info object the last constructor call worked on
    tensor_size,     \* torch.Size passed to _get_dim0_padded_size
    dim0_factor,     \* dim0_factor passed to _get_dim0_padded_size
    padded_size,     \* _get_dim0_padded_size(tensor_size, dim0_factor), <<>> before the call
    repadded_size,   \* _get_dim0_padded_size(padded_size, dim0_factor), <<>> before the call
    chunk_input,     \* size of the tensor passed to _chunk_with_empty
    num_chunks,      \* num_chunks passed to _chunk_with_empty
    dim,             \* dim passed to _chunk_with_empty
    chunks,          \* list returned by _chunk_with_empty, <<>> before the call
    registry,        \* per module: the composable-API registry, or no registry
    checked,         \* module the last _is_composable_with_fsdp call was given (0: none)
    composable       \* what that call returned

mesh_vars == <<mesh, coord, info>>
shard_vars == <<tensor_size, dim0_factor, padded_size, repadded_size,
                chunk_input, num_chunks, dim, chunks>>
compose_vars == <<registry, checked, composable>>
vars == <<mesh, coord, info, tensor_size, dim0_factor, padded_size, repadded_size,
          chunk_input, num_chunks, dim, chunks, registry, checked, composable>>

----------------------------------------------------------------------------
\* Bounds

NumMeshDims == 2
MaxMeshSize == 3
MaxLen == 12
MaxTrail == 2
MaxFactor == 4
MaxChunks == 4
NumModules == 2

----------------------------------------------------------------------------
\* Mesh-info class family

\* Python's None for an Optional[int] field; also an attribute never assigned.
None == -1

MeshDims == 0 .. (NumMeshDims - 1)
OptDims == MeshDims \cup {None}

\* Method resolution order of each class (C3 linearisation of the class statements).
MRO(cls) ==
    CASE cls = "DataParallelMeshInfo" -> <<"DataParallelMeshInfo">>
      [] cls = "FSDPMeshInfo" -> <<"FSDPMeshInfo", "DataParallelMeshInfo">>
      [] cls = "DDPMeshInfo" -> <<"DDPMeshInfo", "DataParallelMeshInfo">>
      [] cls = "HSDPMeshInfo" ->
            <<"HSDPMeshInfo", "FSDPMeshInfo", "DDPMeshInfo", "DataParallelMeshInfo">>

\* super(cls, self): the class after cls in the MRO of type(self).
Super(cls, self) ==
    LET m == MRO(self.cls)
        i == CHOOSE k \in 1 .. Len(m) : m[k] = cls
    IN  m[i + 1]

\* DeviceMesh.size(mesh_dim)
mesh_size(d) == mesh[d]

\* DeviceMesh.get_group(mesh_dim): the sub-group of ranks along mesh_dim,
\* identified by its dimension.
get_group(d) == d

\* ProcessGroup.rank() of the group along dimension g: the position of the
\* current process within that sub-group.
group_rank(g) == coord[g]

\* The dataclass-generated __init__: stores the three fields; the derived
\* attributes do not exist until a __post_init__ assigns them.
NewObject(cls, s, r) ==
    [cls |-> cls, shard_mesh_dim |-> s, replicate_mesh_dim |-> r, raised |-> FALSE,
     shard_mesh_size |-> None, shard_process_group |-> None, shard_mesh_rank |-> None,
     replicate_mesh_size |-> None, replicate_process_group |-> None,
     replicate_mesh_rank |-> None]

NoInfo == NewObject("none", None, None)

Raise(self) == [self EXCEPT !.raised = TRUE]

RECURSIVE post_init(_, _)

DataParallelMeshInfo_post_init_nocheck(self) == self

DataParallelMeshInfo_post_init(self) ==
    IF self.shard_mesh_dim = None /\ self.replicate_mesh_dim = None
    THEN Raise(self)
    ELSE self

FSDPMeshInfo_post_init_nocheck(self) ==
    LET s1 == post_init(Super("FSDPMeshInfo", self), self)
    IN  IF s1.raised THEN s1
        ELSE IF s1.shard_mesh_dim = None THEN s1
        ELSE LET g == get_group(s1.shard_mesh_dim)
             IN  [s1 EXCEPT !.shard_mesh_size = mesh_size(s1.shard_mesh_dim),
                            !.shard_process_group = g,
                            !.shard_mesh_rank = group_rank(g)]

FSDPMeshInfo_post_init(self) ==
    LET s1 == post_init(Super("FSDPMeshInfo", self), self)
    IN  IF s1.raised THEN s1
        ELSE IF s1.shard_mesh_dim = None THEN Raise(s1)
        ELSE LET g == get_group(s1.shard_mesh_dim)
             IN  [s1 EXCEPT !.shard_mesh_size = mesh_size(s1.shard_mesh_dim),
                            !.shard_process_group = g,
                            !.shard_mesh_rank = group_rank(g)]

DDPMeshInfo_post_init_nocheck(self) ==
    LET s1 == post_init(Super("DDPMeshInfo", self), self)
    IN  IF s1.raised THEN s1
        ELSE IF s1.replicate_mesh_dim = None THEN s1
        ELSE LET g == get_group(s1.replicate_mesh_dim)
             IN  [s1 EXCEPT !.replicate_mesh_size = mesh_size(s1.replicate_mesh_dim),
                            !.replicate_process_group = g,
                            !.replicate_mesh_rank = group_rank(g)]

DDPMeshInfo_post_init(self) ==
    LET s1 == post_init(Super("DDPMeshInfo", self), self)
    IN  IF s1.raised THEN s1
        ELSE IF s1.replicate_mesh_dim = None THEN Raise(s1)
        ELSE LET g == get_group(s1.replicate_mesh_dim)
             IN  [s1 EXCEPT !.replicate_mesh_size = mesh_size(s1.replicate_mesh_dim),
                            !.replicate_process_group = g,
                            !.replicate_mesh_rank = group_rank(g)]

\* super(FSDPMeshInfo, self).__post_init__() then
\* super(DDPMeshInfo, self).__post_init__()
HSDPMeshInfo_post_init(self) ==
    LET s1 == post_init(Super("FSDPMeshInfo", self), self)
    IN  IF s1.raised THEN s1
        ELSE post_init(Super("DDPMeshInfo", s1), s1)

\* Dispatch of cls.__post_init__(self).
post_init(cls, self) ==
    CASE cls = "DataParallelMeshInfo" -> DataParallelMeshInfo_post_init(self)
      [] cls = "FSDPMeshInfo" -> FSDPMeshInfo_post_init(self)
      [] cls = "DDPMeshInfo" -> DDPMeshInfo_post_init(self)
      [] cls = "HSDPMeshInfo" -> HSDPMeshInfo_post_init(self)

\* cls(mesh, shard_mesh_dim=s, replicate_mesh_dim=r)
Construct(cls, s, r) == post_init(cls, NewObject(cls, s, r))

DataParallelMeshInfo(s, r) ==
    /\ info' = Construct("DataParallelMeshInfo", s, r)
    /\ UNCHANGED <<mesh, coord, shard_vars, compose_vars>>

FSDPMeshInfo(s, r) ==
    /\ info' = Construct("FSDPMeshInfo", s, r)
    /\ UNCHANGED <<mesh, coord, shard_vars, compose_vars>>

DDPMeshInfo(s, r) ==
    /\ info' = Construct("DDPMeshInfo", s, r)
    /\ UNCHANGED <<mesh, coord, shard_vars, compose_vars>>

HSDPMeshInfo(s, r) ==
    /\ info' = Construct("HSDPMeshInfo", s, r)
    /\ UNCHANGED <<mesh, coord, shard_vars, compose_vars>>

----------------------------------------------------------------------------
\* Padding and chunking

Trailing == {<<>>} \cup {<<k>> : k \in 0 .. MaxTrail}
TensorSizes == {<<l>> \o t : l \in 0 .. MaxLen, t \in Trailing}

\* torch.Size.numel()
RECURSIVE numel(_)
numel(size) == IF size = <<>> THEN 1 ELSE size[1] * numel(Tail(size))

get_dim0_padded_size_roundalways(size, factor) ==
    IF size[1] < factor
    THEN <<factor>> \o Tail(size)
    ELSE <<size[1] + factor - (size[1] % factor)>> \o Tail(size)

get_dim0_padded_size_nomod(size, factor) ==
    IF size[1] < factor
    THEN <<factor>> \o Tail(size)
    ELSE IF size[1] % factor # 0
    THEN <<size[1] + factor>> \o Tail(size)
    ELSE size

get_dim0_padded_size(size, factor) ==
    IF size[1] < factor
    THEN <<factor>> \o Tail(size)
    ELSE IF size[1] % factor # 0
    THEN <<size[1] + factor - (size[1] % factor)>> \o Tail(size)
    ELSE size

\* A chunk: a view of the input starting at index `start` along the chunked
\* dimension, or a freshly allocated tensor (view = FALSE).
View(start, shape) == [view |-> TRUE, start |-> start, shape |-> shape]

\* torch.chunk(tensor, n, dim=d): views of split size ceil(L / n) along d, the
\* last one holding what is left; n zero-length views when L = 0.
torch_chunk(size, n, d) ==
    LET L == size[d + 1]
        split == (L + n - 1) \div n
    IN  IF split = 0
        THEN [i \in 1 .. n |-> View(0, [size EXCEPT ![d + 1] = 0])]
        ELSE LET num == (L + split - 1) \div split
             IN  [i \in 1 .. num |->
                    View(split * (i - 1),
                         [size EXCEPT ![d + 1] =
                            IF i < num THEN split ELSE L - split * (num - 1)])]

\* chunks[0].new_empty(0): a new one-dimensional tensor of zero elements.
new_empty(n) == [view |-> FALSE, start |-> 0, shape |-> <<n>>]

\* while len(chunks) < num_chunks: chunks.append(chunks[0].new_empty(0))
RECURSIVE append_empty(_, _)
append_empty(cs, n) ==
    IF Len(cs) < n THEN append_empty(Append(cs, new_empty(0)), n) ELSE cs

chunk_with_empty_noloop(size, n, d) == torch_chunk(size, n, d)

chunk_with_empty(size, n, d) == append_empty(torch_chunk(size, n, d), n)

\* padded = _get_dim0_padded_size(tensor_size, dim0_factor)
GetDim0PaddedSize ==
    /\ padded_size' = get_dim0_padded_size(tensor_size, dim0_factor)
    /\ UNCHANGED <<tensor_size, dim0_factor, repadded_size,
                   chunk_input, num_chunks, dim, chunks, mesh_vars, compose_vars>>

\* The result fed back: _get_dim0_padded_size(padded, dim0_factor)
GetDim0PaddedSizeAgain ==
    /\ padded_size # <<>>
    /\ repadded_size' = get_dim0_padded_size(padded_size, dim0_factor)
    /\ UNCHANGED <<tensor_size, dim0_factor, padded_size,
                   chunk_input, num_chunks, dim, chunks, mesh_vars, compose_vars>>

\* _chunk_with_empty(t, n, d) on a tensor of the original or of the padded size
ChunkWithEmpty(t, n, d) ==
    /\ t # <<>>
    /\ chunk_input' = t
    /\ num_chunks' = n
    /\ dim' = d
    /\ chunks' = chunk_with_empty(t, n, d)
    /\ UNCHANGED <<tensor_size, dim0_factor, padded_size, repadded_size,
                   mesh_vars, compose_vars>>

----------------------------------------------------------------------------
\* Composability check

Modules == 1 .. NumModules
WrapperNames == {"replicate", "fully_shard", "checkpoint"}

\* _get_registry(module) returning None
NoRegistry == [present |-> FALSE, names |-> {}]
Registries == {NoRegistry} \cup {[present |-> TRUE, names |-> s] : s \in SUBSET WrapperNames}

\* _get_registry(module)
get_registry(m) == registry[m]

is_composable_with_fsdp_inverted(m) ==
    LET r == get_registry(m)
    IN  IF r = NoRegistry THEN TRUE ELSE "replicate" \in r.names

is_composable_with_fsdp(m) ==
    LET r == get_registry(m)
    IN  IF r = NoRegistry THEN TRUE ELSE "replicate" \notin r.names

IsComposableWithFsdp(m) ==
    /\ checked' = m
    /\ composable' = is_composable_with_fsdp(m)
    /\ UNCHANGED <<registry, mesh_vars, shard_vars>>

----------------------------------------------------------------------------
\* Specifications

MeshIdle ==
    /\ mesh = [d \in MeshDims |-> 1]
    /\ coord = [d \in MeshDims |-> 0]
    /\ info = NoInfo

ShardIdle ==
    /\ tensor_size = <<0>>
    /\ dim0_factor = 1
    /\ padded_size = <<>>
    /\ repadded_size = <<>>
    /\ chunk_input = <<>>
    /\ num_chunks = 0
    /\ dim = 0
    /\ chunks = <<>>

ComposeIdle ==
    /\ registry = [m \in Modules |-> NoRegistry]
    /\ checked = 0
    /\ composable = TRUE

\* Mesh-info construction over every small mesh and every rank of it.
InitMesh ==
    /\ mesh \in [MeshDims -> 1 .. MaxMeshSize]
    /\ coord \in [MeshDims -> 0 .. (MaxMeshSize - 1)]
    /\ \A d \in MeshDims : coord[d] < mesh[d]
    /\ info = NoInfo
    /\ ShardIdle
    /\ ComposeIdle

NextMesh ==
    \E s \in OptDims, r \in OptDims :
        \/ DataParallelMeshInfo(s, r)
        \/ FSDPMeshInfo(s, r)
        \/ DDPMeshInfo(s, r)
        \/ HSDPMeshInfo(s, r)

SpecMesh == InitMesh /\ [][NextMesh]_vars

\* Padding and chunking over every small tensor size and factor.
InitShard ==
    /\ tensor_size \in TensorSizes
    /\ dim0_factor \in 1 .. MaxFactor
    /\ padded_size = <<>>
    /\ repadded_size = <<>>
    /\ chunk_input = <<>>
    /\ num_chunks = 0
    /\ dim = 0
    /\ chunks = <<>>
    /\ MeshIdle
    /\ ComposeIdle

NextShard ==
    \/ GetDim0PaddedSize
    \/ GetDim0PaddedSizeAgain
    \/ \E t \in {tensor_size, padded_size}, n \in 1 .. MaxChunks :
            \E d \in 0 .. (Len(t) - 1) : ChunkWithEmpty(t, n, d)

SpecShard == InitShard /\ [][NextShard]_vars

\* The composability check over every small assignment of registries.
InitCompose ==
    /\ registry \in [Modules -> Registries]
    /\ checked = 0
    /\ composable = TRUE
    /\ MeshIdle
    /\ ShardIdle

NextCompose == \E m \in Modules : IsComposableWithFsdp(m)

SpecCompose == InitCompose /\ [][NextCompose]_vars

----------------------------------------------------------------------------
\* Properties of the mesh-info family (SpecMesh)

Constructed(cls) == info.cls = cls
Succeeded(cls) == info.cls = cls /\ ~info.raised

ShardDerived ==
    /\ info.shard_mesh_size = mesh[info.shard_mesh_dim]
    /\ info.shard_mesh_rank = coord[info.shard_mesh_dim]

ReplicateDerived ==
    /\ info.replicate_mesh_size = mesh[info.replicate_mesh_dim]
    /\ info.replicate_mesh_rank = coord[info.replicate_mesh_dim]

\* C1: an HSDPMeshInfo constructed with both (distinct) dimensions set exposes all four
\* derived fields: shard size and rank taken from the shard dimension, replicate
\* size and rank taken from the replicate dimension.
C1_HybridDerivesBoth ==
    (Succeeded("HSDPMeshInfo") /\ info.shard_mesh_dim # None
        /\ info.replicate_mesh_dim # None
        /\ info.shard_mesh_dim # info.replicate_mesh_dim)
    => (ShardDerived /\ ReplicateDerived)

\* C2: constructing an HSDPMeshInfo with shard_dim unset or replicate_dim unset
\* raises; none is ever constructed with either dimension unset.
C2_HybridRequiresBoth ==
    (Constructed("HSDPMeshInfo")
        /\ (info.shard_mesh_dim = None \/ info.replicate_mesh_dim = None))
    => info.raised

\* C3: for every variant, construction with both dimensions unset raises, so
\* every constructed mesh-info object has at least one dimension set.
C3_AtLeastOneDim ==
    info.cls # "none" =>
        /\ (info.shard_mesh_dim = None /\ info.replicate_mesh_dim = None) => info.raised
        /\ ~info.raised => (info.shard_mesh_dim # None \/ info.replicate_mesh_dim # None)

C3_Witness ==
    /\ Constructed("HSDPMeshInfo")
    /\ info.shard_mesh_dim = None
    /\ info.replicate_mesh_dim = None
    /\ info.raised

\* C4: FSDPMeshInfo raises exactly when shard_dim is unset (whatever
\* replicate_dim is) and otherwise sets the shard size and rank from the shard
\* dimension; DDPMeshInfo does the same with the replicate dimension.
C4_ShardAndReplicateInfo ==
    /\ Constructed("FSDPMeshInfo") =>
        /\ info.raised <=> info.shard_mesh_dim = None
        /\ ~info.raised => ShardDerived
    /\ Constructed("DDPMeshInfo") =>
        /\ info.raised <=> info.replicate_mesh_dim = None
        /\ ~info.raised => ReplicateDerived

C4_Witness ==
    /\ Succeeded("FSDPMeshInfo")
    /\ info.replicate_mesh_dim = None
    /\ info.shard_mesh_size = 3
    /\ info.shard_mesh_rank = 2

\* C9 as stated: every constructed HSDPMeshInfo has distinct shard and
\* replicate dimensions.
C9_HybridDimsDistinct ==
    Succeeded("HSDPMeshInfo") => info.shard_mesh_dim # info.replicate_mesh_dim

\* C9 amended: every constructed HSDPMeshInfo has its replicate dimension set
\* and the replicate size and rank derived from it, and construction with
\* shard_dim equal to replicate_dim (both set) succeeds.
C9_HybridReplicateSet ==
    Constructed("HSDPMeshInfo") =>
        /\ ~info.raised => (info.replicate_mesh_dim # None /\ ReplicateDerived)
        /\ (info.shard_mesh_dim = info.replicate_mesh_dim /\ info.shard_mesh_dim # None)
            => ~info.raised

C9_Witness ==
    /\ Succeeded("HSDPMeshInfo")
    /\ info.shard_mesh_dim # None
    /\ info.shard_mesh_dim = info.replicate_mesh_dim

----------------------------------------------------------------------------
\* Properties of padding and chunking (SpecShard)

\* Smallest k with k * n >= l.
CeilDiv(l, n) == CHOOSE k \in 0 .. l : k * n >= l /\ \A j \in 0 .. (k - 1) : j * n < l

ChunkLens == [i \in 1 .. Len(chunks) |-> chunks[i].shape[IF chunks[i].view THEN dim + 1 ELSE 1]]

NumReal == Cardinality({i \in 1 .. Len(chunks) : chunks[i].view})

\* C5: _chunk_with_empty returns exactly num_chunks chunks; the real chunks
\* come first, are contiguous and in order, each of length ceil(L / N) except
\* possibly a shorter last one, and cover L; the rest are empty.
C5_ChunkWithEmpty ==
    chunks # <<>> =>
        LET L == chunk_input[dim + 1]
            per == CeilDiv(L, num_chunks)
            k == NumReal
        IN  /\ Len(chunks) = num_chunks
            /\ \A i \in 1 .. Len(chunks) : chunks[i].view <=> i <= k
            /\ \A i \in 1 .. k :
                /\ chunks[i].start = (IF i = 1 THEN 0 ELSE chunks[i - 1].start + ChunkLens[i - 1])
                /\ IF i < k THEN ChunkLens[i] = per ELSE ChunkLens[i] <= per
                /\ \A a \in 1 .. Len(chunk_input) :
                        a # dim + 1 => chunks[i].shape[a] = chunk_input[a]
            /\ k >= 1
            /\ chunks[k].start + ChunkLens[k] = L
            /\ \A i \in (k + 1) .. Len(chunks) : numel(chunks[i].shape) = 0

C5_Witness ==
    /\ chunk_input = <<2>>
    /\ num_chunks = 4
    /\ dim = 0
    /\ ChunkLens = <<1, 1, 0, 0>>
    /\ NumReal = 2

\* C6 as stated: leading dimension 10 and factor 4 pad to 12, and chunking
\* that tensor into 4 along dim 0 gives 4 chunks of leading dimension 3 each.
C6_PadAndChunkAsStated ==
    (tensor_size[1] = 10 /\ dim0_factor = 4 /\ padded_size # <<>>
        /\ chunks # <<>> /\ chunk_input = tensor_size /\ num_chunks = 4 /\ dim = 0)
    => (padded_size[1] = 12 /\ Len(chunks) = 4
            /\ \A i \in 1 .. Len(chunks) : ChunkLens[i] = 3)

\* C6 amended: leading dimension 10 and factor 4 pad to 12; chunking the
\* tensor of leading dimension 10 into 4 along dim 0 gives chunks of leading
\* dimensions 3, 3, 3, 1, and chunking a tensor of the padded size gives 4
\* chunks of leading dimension 3 each.
C6_PadAndChunk ==
    (tensor_size[1] = 10 /\ dim0_factor = 4) =>
        /\ padded_size # <<>> => padded_size[1] = 12
        /\ (chunks # <<>> /\ num_chunks = 4 /\ dim = 0) =>
            /\ chunk_input = tensor_size => ChunkLens = <<3, 3, 3, 1>>
            /\ (padded_size # <<>> /\ chunk_input = padded_size)
                    => ChunkLens = <<3, 3, 3, 3>>

C6_Witness ==
    /\ tensor_size[1] = 10
    /\ dim0_factor = 4
    /\ padded_size # <<>>
    /\ padded_size[1] = 12
    /\ chunk_input = padded_size
    /\ num_chunks = 4
    /\ dim = 0
    /\ ChunkLens = <<3, 3, 3, 3>>

\* C7: the padded leading dimension is the factor when L < F and the smallest
\* multiple of F that is >= L when L >= F; the other dimensions are the
\* input's.
C7_PaddedSize ==
    padded_size # <<>> =>
        LET L == tensor_size[1]
            F == dim0_factor
            P == padded_size[1]
        IN  /\ Len(padded_size) = Len(tensor_size)
            /\ Tail(padded_size) = Tail(tensor_size)
            /\ L < F => P = F
            /\ L >= F => (P % F = 0 /\ P >= L /\ P - L < F)

C7_Witness ==
    /\ tensor_size = <<7, 2>>
    /\ dim0_factor = 3
    /\ padded_size = <<9, 2>>

\* C8: padding an already padded size with the same factor changes nothing.
C8_PaddedSizeIdempotent ==
    repadded_size # <<>> => repadded_size = padded_size

C8_Witness ==
    /\ tensor_size[1] = 5
    /\ dim0_factor = 4
    /\ padded_size # <<>>
    /\ padded_size[1] = 8
    /\ repadded_size = padded_size

----------------------------------------------------------------------------
\* Properties of the composability check (SpecCompose)

\* C10: the check returns False exactly when the module has a registry that
\* contains "replicate", and True otherwise; the registry is never changed.
C10_Composable ==
    /\ [](checked # 0 =>
            (composable <=>
                ~(registry[checked].present /\ "replicate" \in registry[checked].names)))
    /\ [][registry' = registry]_vars

C10_Witness ==
    /\ checked # 0
    /\ registry[checked] = [present |-> TRUE, names |-> {"replicate", "fully_shard"}]
    /\ ~composable

====
